---- MODULE Spec2Model ----
\* Model of the Vulkan backend's translation functions
\* (src/backend/vulkan/src/data.rs).  The functions are pure; the state
\* machine records the last call: which function ran, its arguments, its
\* return value and the diagnostics it logged.
\*
\* Native enumeration values (vk::FORMAT_..., vk::IMAGE_VIEW_TYPE_...) are
\* modelled by their names.  Native bit masks (vk::IMAGE_USAGE_..._BIT,
\* vk::IMAGE_ASPECT_..._BIT) and the gfx_core Bind flags are integers with
\* the bit values of the Vulkan headers and of gfx_core::factory, combined
\* with a real bitwise OR.
EXTENDS Integers, Sequences, FiniteSets, TLC

VARIABLES op, input, output, log

vars == <<op, input, output, log>>

----------------------------------------------------------------------------
(* Bounds of the explored inputs *)

\* Layer counts and layer indices range over 0..MaxLayer (u16 in the code).
MaxLayer == 3

\* Image sizes range over 1..MaxSize (u16 in the code).
MaxSize == 2

----------------------------------------------------------------------------
(* Option / Result *)

Some(v) == [some |-> TRUE, val |-> v]

None == [some |-> FALSE]

Ok(v) == [ok |-> TRUE, val |-> v]

Err(e) == [ok |-> FALSE, err |-> e]

----------------------------------------------------------------------------
(* gfx_core::tex::Kind *)

Sizes == 1..MaxSize

Layers == 0..MaxLayer

AaModes == {"Single", "Multi"}

NonArrayTags == {"D1", "D2", "D3", "Cube"}

ArrayTags == {"D1Array", "D2Array", "CubeArray"}

Kinds ==
    [tag : {"D1"}, w : Sizes]
    \cup [tag : {"D1Array"}, w : Sizes, n : Layers]
    \cup [tag : {"D2"}, w : Sizes, h : Sizes, aa : AaModes]
    \cup [tag : {"D2Array"}, w : Sizes, h : Sizes, n : Layers, aa : AaModes]
    \cup [tag : {"D3"}, w : Sizes, h : Sizes, d : Sizes]
    \cup [tag : {"Cube"}, w : Sizes]
    \cup [tag : {"CubeArray"}, w : Sizes, n : Layers]

\* Option<Layer>
OptLayers == {None} \cup {Some(l) : l \in Layers}

NotExpected(kind) == [tag |-> "NotExpected", kind |-> kind]

OutOfBounds(l, n) == [tag |-> "OutOfBounds", layer |-> l, count |-> n]

----------------------------------------------------------------------------
(* map_image_type *)

\* Mutant: cube kinds get a 3-D image type.
map_image_type_cube(kind) ==
    IF kind.tag \in {"D1", "D1Array"} THEN "IMAGE_TYPE_1D"
    ELSE IF kind.tag \in {"D2", "D2Array"} THEN "IMAGE_TYPE_2D"
    ELSE IF kind.tag = "D3" THEN "IMAGE_TYPE_3D"
    ELSE "IMAGE_TYPE_3D"

map_image_type(kind) ==
    IF kind.tag \in {"D1", "D1Array"} THEN "IMAGE_TYPE_1D"
    ELSE IF kind.tag \in {"D2", "D2Array"} THEN "IMAGE_TYPE_2D"
    ELSE IF kind.tag = "D3" THEN "IMAGE_TYPE_3D"
    ELSE "IMAGE_TYPE_2D"

----------------------------------------------------------------------------
(* map_image_view_type: the match arms in source order *)

\* Mutant: the bounds guard compares with < instead of <=.
map_image_view_type_lt(kind, layer) ==
    IF kind.tag \in {"D1", "D2", "D3", "Cube"} /\ layer.some
        THEN Err(NotExpected(kind))
    ELSE IF kind.tag = "D1Array" /\ layer.some /\ kind.n < layer.val
        THEN Err(OutOfBounds(layer.val, kind.n))
    ELSE IF kind.tag = "D2Array" /\ layer.some /\ kind.n < layer.val
        THEN Err(OutOfBounds(layer.val, kind.n))
    ELSE IF kind.tag = "CubeArray" /\ layer.some /\ kind.n < layer.val
        THEN Err(OutOfBounds(layer.val, kind.n))
    ELSE IF (kind.tag = "D1" /\ ~layer.some) \/ (kind.tag = "D1Array" /\ layer.some)
        THEN Ok("IMAGE_VIEW_TYPE_1D")
    ELSE IF kind.tag = "D1Array"
        THEN Ok("IMAGE_VIEW_TYPE_1D_ARRAY")
    ELSE IF (kind.tag = "D2" /\ ~layer.some) \/ (kind.tag = "D2Array" /\ layer.some)
        THEN Ok("IMAGE_VIEW_TYPE_2D")
    ELSE IF kind.tag = "D2Array" /\ ~layer.some
        THEN Ok("IMAGE_VIEW_TYPE_2D_ARRAY")
    ELSE IF kind.tag = "D3" /\ ~layer.some
        THEN Ok("IMAGE_VIEW_TYPE_3D")
    ELSE IF (kind.tag = "Cube") \/ (kind.tag = "CubeArray" /\ layer.some)
        THEN Ok("IMAGE_VIEW_TYPE_CUBE")
    ELSE Ok("IMAGE_VIEW_TYPE_CUBE_ARRAY")

\* Mutant: (Cube, Some) is missing from the NotExpected arm and falls to the CUBE arm.
map_image_view_type_cube_layer(kind, layer) ==
    IF kind.tag \in {"D1", "D2", "D3"} /\ layer.some
        THEN Err(NotExpected(kind))
    ELSE IF kind.tag = "D1Array" /\ layer.some /\ kind.n <= layer.val
        THEN Err(OutOfBounds(layer.val, kind.n))
    ELSE IF kind.tag = "D2Array" /\ layer.some /\ kind.n <= layer.val
        THEN Err(OutOfBounds(layer.val, kind.n))
    ELSE IF kind.tag = "CubeArray" /\ layer.some /\ kind.n <= layer.val
        THEN Err(OutOfBounds(layer.val, kind.n))
    ELSE IF (kind.tag = "D1" /\ ~layer.some) \/ (kind.tag = "D1Array" /\ layer.some)
        THEN Ok("IMAGE_VIEW_TYPE_1D")
    ELSE IF kind.tag = "D1Array"
        THEN Ok("IMAGE_VIEW_TYPE_1D_ARRAY")
    ELSE IF (kind.tag = "D2" /\ ~layer.some) \/ (kind.tag = "D2Array" /\ layer.some)
        THEN Ok("IMAGE_VIEW_TYPE_2D")
    ELSE IF kind.tag = "D2Array" /\ ~layer.some
        THEN Ok("IMAGE_VIEW_TYPE_2D_ARRAY")
    ELSE IF kind.tag = "D3" /\ ~layer.some
        THEN Ok("IMAGE_VIEW_TYPE_3D")
    ELSE IF (kind.tag = "Cube") \/ (kind.tag = "CubeArray" /\ layer.some)
        THEN Ok("IMAGE_VIEW_TYPE_CUBE")
    ELSE Ok("IMAGE_VIEW_TYPE_CUBE_ARRAY")

\* Mutant: the D1Array arms are swapped: a layer selects the whole-array view.
map_image_view_type_swapped(kind, layer) ==
    IF kind.tag \in {"D1", "D2", "D3", "Cube"} /\ layer.some
        THEN Err(NotExpected(kind))
    ELSE IF kind.tag = "D1Array" /\ layer.some /\ kind.n <= layer.val
        THEN Err(OutOfBounds(layer.val, kind.n))
    ELSE IF kind.tag = "D2Array" /\ layer.some /\ kind.n <= layer.val
        THEN Err(OutOfBounds(layer.val, kind.n))
    ELSE IF kind.tag = "CubeArray" /\ layer.some /\ kind.n <= layer.val
        THEN Err(OutOfBounds(layer.val, kind.n))
    ELSE IF (kind.tag = "D1" /\ ~layer.some) \/ (kind.tag = "D1Array" /\ ~layer.some)
        THEN Ok("IMAGE_VIEW_TYPE_1D")
    ELSE IF kind.tag = "D1Array"
        THEN Ok("IMAGE_VIEW_TYPE_1D_ARRAY")
    ELSE IF (kind.tag = "D2" /\ ~layer.some) \/ (kind.tag = "D2Array" /\ layer.some)
        THEN Ok("IMAGE_VIEW_TYPE_2D")
    ELSE IF kind.tag = "D2Array" /\ ~layer.some
        THEN Ok("IMAGE_VIEW_TYPE_2D_ARRAY")
    ELSE IF kind.tag = "D3" /\ ~layer.some
        THEN Ok("IMAGE_VIEW_TYPE_3D")
    ELSE IF (kind.tag = "Cube") \/ (kind.tag = "CubeArray" /\ layer.some)
        THEN Ok("IMAGE_VIEW_TYPE_CUBE")
    ELSE Ok("IMAGE_VIEW_TYPE_CUBE_ARRAY")

map_image_view_type(kind, layer) ==
    IF kind.tag \in {"D1", "D2", "D3", "Cube"} /\ layer.some
        THEN Err(NotExpected(kind))
    ELSE IF kind.tag = "D1Array" /\ layer.some /\ kind.n <= layer.val
        THEN Err(OutOfBounds(layer.val, kind.n))
    ELSE IF kind.tag = "D2Array" /\ layer.some /\ kind.n <= layer.val
        THEN Err(OutOfBounds(layer.val, kind.n))
    ELSE IF kind.tag = "CubeArray" /\ layer.some /\ kind.n <= layer.val
        THEN Err(OutOfBounds(layer.val, kind.n))
    ELSE IF (kind.tag = "D1" /\ ~layer.some) \/ (kind.tag = "D1Array" /\ layer.some)
        THEN Ok("IMAGE_VIEW_TYPE_1D")
    ELSE IF kind.tag = "D1Array" /\ ~layer.some
        THEN Ok("IMAGE_VIEW_TYPE_1D_ARRAY")
    ELSE IF (kind.tag = "D2" /\ ~layer.some) \/ (kind.tag = "D2Array" /\ layer.some)
        THEN Ok("IMAGE_VIEW_TYPE_2D")
    ELSE IF kind.tag = "D2Array" /\ ~layer.some
        THEN Ok("IMAGE_VIEW_TYPE_2D_ARRAY")
    ELSE IF kind.tag = "D3" /\ ~layer.some
        THEN Ok("IMAGE_VIEW_TYPE_3D")
    ELSE IF (kind.tag = "Cube" /\ ~layer.some) \/ (kind.tag = "CubeArray" /\ layer.some)
        THEN Ok("IMAGE_VIEW_TYPE_CUBE")
    ELSE Ok("IMAGE_VIEW_TYPE_CUBE_ARRAY")

----------------------------------------------------------------------------
(* gfx_core::format *)

SurfaceTypes ==
    {"R4_G4", "R4_G4_B4_A4", "R5_G5_B5_A1", "R5_G6_B5",
     "R8", "R8_G8", "R8_G8_B8_A8", "R10_G10_B10_A2", "R11_G11_B10",
     "R16", "R16_G16", "R16_G16_B16", "R16_G16_B16_A16",
     "R32", "R32_G32", "R32_G32_B32", "R32_G32_B32_A32",
     "D16", "D24", "D24_S8", "D32"}

ChannelTypes == {"Int", "Uint", "Inorm", "Unorm", "Float", "Srgb"}

----------------------------------------------------------------------------
(* Bit masks *)

RECURSIVE BitOr(_, _)
BitOr(a, b) ==
    IF a = 0 THEN b
    ELSE IF b = 0 THEN a
    ELSE (IF a % 2 = 1 \/ b % 2 = 1 THEN 1 ELSE 0) + 2 * BitOr(a \div 2, b \div 2)

RECURSIVE BitAnd(_, _)
BitAnd(a, b) ==
    IF a = 0 \/ b = 0 THEN 0
    ELSE (IF a % 2 = 1 /\ b % 2 = 1 THEN 1 ELSE 0) + 2 * BitAnd(a \div 2, b \div 2)

\* bitflags: self.contains(other)
contains(flags, other) == BitAnd(flags, other) = other

\* vk::ImageAspectFlagBits
IMAGE_ASPECT_COLOR_BIT == 1

IMAGE_ASPECT_DEPTH_BIT == 2

IMAGE_ASPECT_STENCIL_BIT == 4

\* vk::ImageUsageFlagBits
IMAGE_USAGE_TRANSFER_SRC_BIT == 1

IMAGE_USAGE_TRANSFER_DST_BIT == 2

IMAGE_USAGE_SAMPLED_BIT == 4

IMAGE_USAGE_STORAGE_BIT == 8

IMAGE_USAGE_COLOR_ATTACHMENT_BIT == 16

IMAGE_USAGE_DEPTH_STENCIL_ATTACHMENT_BIT == 32

\* gfx_core::factory::Bind
RENDER_TARGET == 1

DEPTH_STENCIL == 2

SHADER_RESOURCE == 4

UNORDERED_ACCESS == 8

\* every combination of the four Bind flags
Binds == 0..15

\* gfx_core::factory::Usage
Usages ==
    {[tag |-> "Const"], [tag |-> "GpuOnly"], [tag |-> "Dynamic"]}
    \cup [tag : {"CpuOnly"}, map : {"Readable", "Writable", "RW"}]

----------------------------------------------------------------------------
(* map_image_aspect: returns the aspect flags and the diagnostics logged *)

\* Mutant: the render-target arm sets the depth bit only.
map_image_aspect_depth_only(surface, channel, is_target) ==
    IF surface \in {"D16", "D24", "D24_S8", "D32"} THEN
        IF is_target
            THEN [flags |-> IMAGE_ASPECT_DEPTH_BIT, log |-> <<>>]
        ELSE IF channel = "Float"
            THEN [flags |-> IMAGE_ASPECT_DEPTH_BIT, log |-> <<>>]
        ELSE IF channel = "Uint"
            THEN [flags |-> IMAGE_ASPECT_STENCIL_BIT, log |-> <<>>]
        ELSE [flags |-> IMAGE_ASPECT_DEPTH_BIT,
              log |-> <<[level |-> "error",
                         msg |-> "Unexpected depth/stencil channel",
                         channel |-> channel]>>]
    ELSE [flags |-> IMAGE_ASPECT_COLOR_BIT, log |-> <<>>]

map_image_aspect(surface, channel, is_target) ==
    IF surface \in {"D16", "D24", "D24_S8", "D32"} THEN
        IF is_target
            THEN [flags |-> BitOr(IMAGE_ASPECT_DEPTH_BIT, IMAGE_ASPECT_STENCIL_BIT),
                  log |-> <<>>]
        ELSE IF channel = "Float"
            THEN [flags |-> IMAGE_ASPECT_DEPTH_BIT, log |-> <<>>]
        ELSE IF channel = "Uint"
            THEN [flags |-> IMAGE_ASPECT_STENCIL_BIT, log |-> <<>>]
        ELSE [flags |-> IMAGE_ASPECT_DEPTH_BIT,
              log |-> <<[level |-> "error",
                         msg |-> "Unexpected depth/stencil channel",
                         channel |-> channel]>>]
    ELSE [flags |-> IMAGE_ASPECT_COLOR_BIT, log |-> <<>>]

----------------------------------------------------------------------------
(* map_usage_tiling *)

\* Mutant: the Readable and Writable transfer bits are swapped.
map_usage_tiling_swapped(gfx_usage, bind) ==
    LET u0 == 0
        u1 == IF contains(bind, RENDER_TARGET)
                THEN BitOr(u0, IMAGE_USAGE_COLOR_ATTACHMENT_BIT) ELSE u0
        u2 == IF contains(bind, DEPTH_STENCIL)
                THEN BitOr(u1, IMAGE_USAGE_DEPTH_STENCIL_ATTACHMENT_BIT) ELSE u1
        u3 == IF contains(bind, SHADER_RESOURCE)
                THEN BitOr(u2, IMAGE_USAGE_SAMPLED_BIT) ELSE u2
        u4 == IF contains(bind, UNORDERED_ACCESS)
                THEN BitOr(u3, IMAGE_USAGE_STORAGE_BIT) ELSE u3
    IN  IF gfx_usage.tag = "Const" THEN
            <<u4, "IMAGE_TILING_OPTIMAL">>
        ELSE IF gfx_usage.tag = "GpuOnly" THEN
            <<BitOr(u4, BitOr(IMAGE_USAGE_TRANSFER_SRC_BIT, IMAGE_USAGE_TRANSFER_DST_BIT)),
              "IMAGE_TILING_OPTIMAL">>
        ELSE IF gfx_usage.tag = "Dynamic" THEN
            <<BitOr(u4, IMAGE_USAGE_TRANSFER_DST_BIT), "IMAGE_TILING_LINEAR">>
        ELSE
            <<BitOr(u4,
                    IF gfx_usage.map = "Readable" THEN IMAGE_USAGE_TRANSFER_SRC_BIT
                    ELSE IF gfx_usage.map = "Writable" THEN IMAGE_USAGE_TRANSFER_DST_BIT
                    ELSE BitOr(IMAGE_USAGE_TRANSFER_SRC_BIT, IMAGE_USAGE_TRANSFER_DST_BIT)),
              "IMAGE_TILING_LINEAR">>

\* Mutant: the SHADER_RESOURCE arm assigns (=) instead of accumulating (|=).
map_usage_tiling_assign(gfx_usage, bind) ==
    LET u0 == 0
        u1 == IF contains(bind, RENDER_TARGET)
                THEN BitOr(u0, IMAGE_USAGE_COLOR_ATTACHMENT_BIT) ELSE u0
        u2 == IF contains(bind, DEPTH_STENCIL)
                THEN BitOr(u1, IMAGE_USAGE_DEPTH_STENCIL_ATTACHMENT_BIT) ELSE u1
        u3 == IF contains(bind, SHADER_RESOURCE)
                THEN IMAGE_USAGE_SAMPLED_BIT ELSE u2
        u4 == IF contains(bind, UNORDERED_ACCESS)
                THEN BitOr(u3, IMAGE_USAGE_STORAGE_BIT) ELSE u3
    IN  IF gfx_usage.tag = "Const" THEN
            <<u4, "IMAGE_TILING_OPTIMAL">>
        ELSE IF gfx_usage.tag = "GpuOnly" THEN
            <<BitOr(u4, BitOr(IMAGE_USAGE_TRANSFER_SRC_BIT, IMAGE_USAGE_TRANSFER_DST_BIT)),
              "IMAGE_TILING_OPTIMAL">>
        ELSE IF gfx_usage.tag = "Dynamic" THEN
            <<BitOr(u4, IMAGE_USAGE_TRANSFER_DST_BIT), "IMAGE_TILING_LINEAR">>
        ELSE
            <<BitOr(u4,
                    IF gfx_usage.map = "Readable" THEN IMAGE_USAGE_TRANSFER_DST_BIT
                    ELSE IF gfx_usage.map = "Writable" THEN IMAGE_USAGE_TRANSFER_SRC_BIT
                    ELSE BitOr(IMAGE_USAGE_TRANSFER_SRC_BIT, IMAGE_USAGE_TRANSFER_DST_BIT)),
              "IMAGE_TILING_LINEAR">>

map_usage_tiling(gfx_usage, bind) ==
    LET u0 == 0
        u1 == IF contains(bind, RENDER_TARGET)
                THEN BitOr(u0, IMAGE_USAGE_COLOR_ATTACHMENT_BIT) ELSE u0
        u2 == IF contains(bind, DEPTH_STENCIL)
                THEN BitOr(u1, IMAGE_USAGE_DEPTH_STENCIL_ATTACHMENT_BIT) ELSE u1
        u3 == IF contains(bind, SHADER_RESOURCE)
                THEN BitOr(u2, IMAGE_USAGE_SAMPLED_BIT) ELSE u2
        u4 == IF contains(bind, UNORDERED_ACCESS)
                THEN BitOr(u3, IMAGE_USAGE_STORAGE_BIT) ELSE u3
    IN  IF gfx_usage.tag = "Const" THEN
            <<u4, "IMAGE_TILING_OPTIMAL">>
        ELSE IF gfx_usage.tag = "GpuOnly" THEN
            <<BitOr(u4, BitOr(IMAGE_USAGE_TRANSFER_SRC_BIT, IMAGE_USAGE_TRANSFER_DST_BIT)),
              "IMAGE_TILING_OPTIMAL">>
        ELSE IF gfx_usage.tag = "Dynamic" THEN
            <<BitOr(u4, IMAGE_USAGE_TRANSFER_DST_BIT), "IMAGE_TILING_LINEAR">>
        ELSE
            <<BitOr(u4,
                    IF gfx_usage.map = "Readable" THEN IMAGE_USAGE_TRANSFER_DST_BIT
                    ELSE IF gfx_usage.map = "Writable" THEN IMAGE_USAGE_TRANSFER_SRC_BIT
                    ELSE BitOr(IMAGE_USAGE_TRANSFER_SRC_BIT, IMAGE_USAGE_TRANSFER_DST_BIT)),
              "IMAGE_TILING_LINEAR">>

----------------------------------------------------------------------------
(* map_format: one operator per surface arm, then the outer match *)

map_format_R4_G4(chan) ==
    IF chan = "Unorm" THEN Some("FORMAT_R4G4_UNORM_PACK8")
    ELSE None

map_format_R4_G4_B4_A4(chan) ==
    IF chan = "Unorm" THEN Some("FORMAT_R4G4B4A4_UNORM_PACK16")
    ELSE None

map_format_R5_G5_B5_A1(chan) ==
    IF chan = "Unorm" THEN Some("FORMAT_R5G5B5A1_UNORM_PACK16")
    ELSE None

map_format_R5_G6_B5(chan) ==
    IF chan = "Unorm" THEN Some("FORMAT_R5G6B5_UNORM_PACK16")
    ELSE None

map_format_R8(chan) ==
    IF chan = "Int" THEN Some("FORMAT_R8_SINT")
    ELSE IF chan = "Uint" THEN Some("FORMAT_R8_UINT")
    ELSE IF chan = "Inorm" THEN Some("FORMAT_R8_SNORM")
    ELSE IF chan = "Unorm" THEN Some("FORMAT_R8_UNORM")
    ELSE IF chan = "Srgb" THEN Some("FORMAT_R8_SRGB")
    ELSE None

map_format_R8_G8(chan) ==
    IF chan = "Int" THEN Some("FORMAT_R8G8_SINT")
    ELSE IF chan = "Uint" THEN Some("FORMAT_R8G8_UINT")
    ELSE IF chan = "Inorm" THEN Some("FORMAT_R8G8_SNORM")
    ELSE IF chan = "Unorm" THEN Some("FORMAT_R8G8_UNORM")
    ELSE IF chan = "Srgb" THEN Some("FORMAT_R8G8_SRGB")
    ELSE None

map_format_R8_G8_B8_A8(chan) ==
    IF chan = "Int" THEN Some("FORMAT_R8G8B8A8_SINT")
    ELSE IF chan = "Uint" THEN Some("FORMAT_R8G8B8A8_UINT")
    ELSE IF chan = "Inorm" THEN Some("FORMAT_R8G8B8A8_SNORM")
    ELSE IF chan = "Unorm" THEN Some("FORMAT_R8G8B8A8_UNORM")
    ELSE IF chan = "Srgb" THEN Some("FORMAT_R8G8B8A8_SRGB")
    ELSE None

\* Mutant: the arm also accepts Srgb, as the 8-bit arms do.
map_format_R10_G10_B10_A2_srgb(chan) ==
    IF chan = "Int" THEN Some("FORMAT_A2R10G10B10_SINT_PACK32")
    ELSE IF chan = "Uint" THEN Some("FORMAT_A2R10G10B10_UINT_PACK32")
    ELSE IF chan = "Inorm" THEN Some("FORMAT_A2R10G10B10_SNORM_PACK32")
    ELSE IF chan = "Unorm" THEN Some("FORMAT_A2R10G10B10_UNORM_PACK32")
    ELSE IF chan = "Srgb" THEN Some("FORMAT_A2R10G10B10_SRGB_PACK32")
    ELSE None

map_format_R10_G10_B10_A2(chan) ==
    IF chan = "Int" THEN Some("FORMAT_A2R10G10B10_SINT_PACK32")
    ELSE IF chan = "Uint" THEN Some("FORMAT_A2R10G10B10_UINT_PACK32")
    ELSE IF chan = "Inorm" THEN Some("FORMAT_A2R10G10B10_SNORM_PACK32")
    ELSE IF chan = "Unorm" THEN Some("FORMAT_A2R10G10B10_UNORM_PACK32")
    ELSE None

map_format_R11_G11_B10(chan) ==
    IF chan = "Float" THEN Some("FORMAT_B10G11R11_UFLOAT_PACK32")
    ELSE None

map_format_R16(chan) ==
    IF chan = "Int" THEN Some("FORMAT_R16_SINT")
    ELSE IF chan = "Uint" THEN Some("FORMAT_R16_UINT")
    ELSE IF chan = "Inorm" THEN Some("FORMAT_R16_SNORM")
    ELSE IF chan = "Unorm" THEN Some("FORMAT_R16_UNORM")
    ELSE IF chan = "Float" THEN Some("FORMAT_R16_SFLOAT")
    ELSE None

map_format_R16_G16(chan) ==
    IF chan = "Int" THEN Some("FORMAT_R16G16_SINT")
    ELSE IF chan = "Uint" THEN Some("FORMAT_R16G16_UINT")
    ELSE IF chan = "Inorm" THEN Some("FORMAT_R16G16_SNORM")
    ELSE IF chan = "Unorm" THEN Some("FORMAT_R16G16_UNORM")
    ELSE IF chan = "Float" THEN Some("FORMAT_R16G16_SFLOAT")
    ELSE None

map_format_R16_G16_B16(chan) ==
    IF chan = "Int" THEN Some("FORMAT_R16G16B16_SINT")
    ELSE IF chan = "Uint" THEN Some("FORMAT_R16G16B16_UINT")
    ELSE IF chan = "Inorm" THEN Some("FORMAT_R16G16B16_SNORM")
    ELSE IF chan = "Unorm" THEN Some("FORMAT_R16G16B16_UNORM")
    ELSE IF chan = "Float" THEN Some("FORMAT_R16G16B16_SFLOAT")
    ELSE None

map_format_R16_G16_B16_A16(chan) ==
    IF chan = "Int" THEN Some("FORMAT_R16G16B16A16_SINT")
    ELSE IF chan = "Uint" THEN Some("FORMAT_R16G16B16A16_UINT")
    ELSE IF chan = "Inorm" THEN Some("FORMAT_R16G16B16A16_SNORM")
    ELSE IF chan = "Unorm" THEN Some("FORMAT_R16G16B16A16_UNORM")
    ELSE IF chan = "Float" THEN Some("FORMAT_R16G16B16A16_SFLOAT")
    ELSE None

map_format_R32(chan) ==
    IF chan = "Int" THEN Some("FORMAT_R32_SINT")
    ELSE IF chan = "Uint" THEN Some("FORMAT_R32_UINT")
    ELSE IF chan = "Float" THEN Some("FORMAT_R32_SFLOAT")
    ELSE None

map_format_R32_G32(chan) ==
    IF chan = "Int" THEN Some("FORMAT_R32G32_SINT")
    ELSE IF chan = "Uint" THEN Some("FORMAT_R32G32_UINT")
    ELSE IF chan = "Float" THEN Some("FORMAT_R32G32_SFLOAT")
    ELSE None

map_format_R32_G32_B32(chan) ==
    IF chan = "Int" THEN Some("FORMAT_R32G32B32_SINT")
    ELSE IF chan = "Uint" THEN Some("FORMAT_R32G32B32_UINT")
    ELSE IF chan = "Float" THEN Some("FORMAT_R32G32B32_SFLOAT")
    ELSE None

map_format_R32_G32_B32_A32(chan) ==
    IF chan = "Int" THEN Some("FORMAT_R32G32B32A32_SINT")
    ELSE IF chan = "Uint" THEN Some("FORMAT_R32G32B32A32_UINT")
    ELSE IF chan = "Float" THEN Some("FORMAT_R32G32B32A32_SFLOAT")
    ELSE None

map_format_D16(chan) ==
    IF chan = "Unorm" THEN Some("FORMAT_D16_UNORM")
    ELSE None

map_format_D24(chan) ==
    IF chan = "Unorm" THEN Some("FORMAT_X8_D24_UNORM_PACK32")
    ELSE None

map_format_D24_S8(chan) ==
    IF chan = "Unorm" THEN Some("FORMAT_D24_UNORM_S8_UINT")
    ELSE None

map_format_D32(chan) ==
    IF chan = "Float" THEN Some("FORMAT_D32_SFLOAT")
    ELSE None

map_format(surface, chan) ==
    IF surface = "R4_G4" THEN map_format_R4_G4(chan)
    ELSE IF surface = "R4_G4_B4_A4" THEN map_format_R4_G4_B4_A4(chan)
    ELSE IF surface = "R5_G5_B5_A1" THEN map_format_R5_G5_B5_A1(chan)
    ELSE IF surface = "R5_G6_B5" THEN map_format_R5_G6_B5(chan)
    ELSE IF surface = "R8" THEN map_format_R8(chan)
    ELSE IF surface = "R8_G8" THEN map_format_R8_G8(chan)
    ELSE IF surface = "R8_G8_B8_A8" THEN map_format_R8_G8_B8_A8(chan)
    ELSE IF surface = "R10_G10_B10_A2" THEN map_format_R10_G10_B10_A2(chan)
    ELSE IF surface = "R11_G11_B10" THEN map_format_R11_G11_B10(chan)
    ELSE IF surface = "R16" THEN map_format_R16(chan)
    ELSE IF surface = "R16_G16" THEN map_format_R16_G16(chan)
    ELSE IF surface = "R16_G16_B16" THEN map_format_R16_G16_B16(chan)
    ELSE IF surface = "R16_G16_B16_A16" THEN map_format_R16_G16_B16_A16(chan)
    ELSE IF surface = "R32" THEN map_format_R32(chan)
    ELSE IF surface = "R32_G32" THEN map_format_R32_G32(chan)
    ELSE IF surface = "R32_G32_B32" THEN map_format_R32_G32_B32(chan)
    ELSE IF surface = "R32_G32_B32_A32" THEN map_format_R32_G32_B32_A32(chan)
    ELSE IF surface = "D16" THEN map_format_D16(chan)
    ELSE IF surface = "D24" THEN map_format_D24(chan)
    ELSE IF surface = "D24_S8" THEN map_format_D24_S8(chan)
    ELSE map_format_D32(chan)

----------------------------------------------------------------------------
(* map_border_color *)

\* PackedColor(u32), held as its four bytes, most significant first:
\* 0xAABBCCDD is <<0xAA, 0xBB, 0xCC, 0xDD>>.
ColorBytes == {0, 1, 128, 254, 255}

PackedColors == ColorBytes \X ColorBytes \X ColorBytes \X ColorBytes

\* Mutant: opaque white is matched as 0x00FFFFFF.
map_border_color_typo(col) ==
    IF col = <<0, 0, 0, 0>> THEN Some("BORDER_COLOR_FLOAT_TRANSPARENT_BLACK")
    ELSE IF col = <<255, 0, 0, 0>> THEN Some("BORDER_COLOR_FLOAT_OPAQUE_BLACK")
    ELSE IF col = <<0, 255, 255, 255>> THEN Some("BORDER_COLOR_FLOAT_OPAQUE_WHITE")
    ELSE None

map_border_color(col) ==
    IF col = <<0, 0, 0, 0>> THEN Some("BORDER_COLOR_FLOAT_TRANSPARENT_BLACK")
    ELSE IF col = <<255, 0, 0, 0>> THEN Some("BORDER_COLOR_FLOAT_OPAQUE_BLACK")
    ELSE IF col = <<255, 255, 255, 255>> THEN Some("BORDER_COLOR_FLOAT_OPAQUE_WHITE")
    ELSE None

----------------------------------------------------------------------------
(* Actions: one per translation function *)

Init ==
    /\ op = "none"
    /\ input = <<>>
    /\ output = <<>>
    /\ log = <<>>

MapImageType ==
    \E kind \in Kinds :
        /\ op' = "map_image_type"
        /\ input' = [kind |-> kind]
        /\ output' = map_image_type(kind)
        /\ log' = <<>>

MapImageViewType ==
    \E kind \in Kinds, layer \in OptLayers :
        /\ op' = "map_image_view_type"
        /\ input' = [kind |-> kind, layer |-> layer]
        /\ output' = map_image_view_type(kind, layer)
        /\ log' = <<>>

MapImageAspect ==
    \E surface \in SurfaceTypes, channel \in ChannelTypes, is_target \in BOOLEAN :
        LET r == map_image_aspect(surface, channel, is_target)
        IN  /\ op' = "map_image_aspect"
            /\ input' = [surface |-> surface, channel |-> channel,
                         is_target |-> is_target]
            /\ output' = r.flags
            /\ log' = r.log

MapUsageTiling ==
    \E gfx_usage \in Usages, bind \in Binds :
        /\ op' = "map_usage_tiling"
        /\ input' = [gfx_usage |-> gfx_usage, bind |-> bind]
        /\ output' = map_usage_tiling(gfx_usage, bind)
        /\ log' = <<>>

MapFormat ==
    \E surface \in SurfaceTypes, chan \in ChannelTypes :
        /\ op' = "map_format"
        /\ input' = [surface |-> surface, chan |-> chan]
        /\ output' = map_format(surface, chan)
        /\ log' = <<>>

MapBorderColor ==
    \E col \in PackedColors :
        /\ op' = "map_border_color"
        /\ input' = [col |-> col]
        /\ output' = map_border_color(col)
        /\ log' = <<>>

Next ==
    \/ MapImageType
    \/ MapImageViewType
    \/ MapImageAspect
    \/ MapUsageTiling
    \/ MapFormat
    \/ MapBorderColor

Spec == Init /\ [][Next]_vars

----------------------------------------------------------------------------
(* Properties *)

\* The channel subsets the format table is documented to support.
SupportedChannels(surface) ==
    IF surface \in {"R4_G4", "R4_G4_B4_A4", "R5_G5_B5_A1", "R5_G6_B5",
                    "D16", "D24", "D24_S8"}
        THEN {"Unorm"}
    ELSE IF surface \in {"R8", "R8_G8", "R8_G8_B8_A8"}
        THEN {"Int", "Uint", "Inorm", "Unorm", "Srgb"}
    ELSE IF surface = "R10_G10_B10_A2"
        THEN {"Int", "Uint", "Inorm", "Unorm"}
    ELSE IF surface \in {"R11_G11_B10", "D32"}
        THEN {"Float"}
    ELSE IF surface \in {"R16", "R16_G16", "R16_G16_B16", "R16_G16_B16_A16"}
        THEN {"Int", "Uint", "Inorm", "Unorm", "Float"}
    ELSE {"Int", "Uint", "Float"}

\* The component layout of a surface as the native format names spell it.
NativeLayout(surface) ==
    CASE surface = "R4_G4" -> "R4G4"
      [] surface = "R4_G4_B4_A4" -> "R4G4B4A4"
      [] surface = "R5_G5_B5_A1" -> "R5G5B5A1"
      [] surface = "R5_G6_B5" -> "R5G6B5"
      [] surface = "R8" -> "R8"
      [] surface = "R8_G8" -> "R8G8"
      [] surface = "R8_G8_B8_A8" -> "R8G8B8A8"
      [] surface = "R10_G10_B10_A2" -> "A2R10G10B10"
      [] surface = "R11_G11_B10" -> "B10G11R11"
      [] surface = "R16" -> "R16"
      [] surface = "R16_G16" -> "R16G16"
      [] surface = "R16_G16_B16" -> "R16G16B16"
      [] surface = "R16_G16_B16_A16" -> "R16G16B16A16"
      [] surface = "R32" -> "R32"
      [] surface = "R32_G32" -> "R32G32"
      [] surface = "R32_G32_B32" -> "R32G32B32"
      [] surface = "R32_G32_B32_A32" -> "R32G32B32A32"
      [] surface = "D16" -> "D16"
      [] surface = "D24" -> "X8_D24"
      [] surface = "D24_S8" -> "D24"
      [] surface = "D32" -> "D32"

\* The numeric suffix of a channel; the packed float surface is unsigned.
NativeSuffix(surface, chan) ==
    CASE chan = "Int" -> "SINT"
      [] chan = "Uint" -> "UINT"
      [] chan = "Inorm" -> "SNORM"
      [] chan = "Unorm" -> "UNORM"
      [] chan = "Srgb" -> "SRGB"
      [] chan = "Float" -> IF surface = "R11_G11_B10" THEN "UFLOAT" ELSE "SFLOAT"

\* What follows the numeric suffix: the packing of packed layouts, the
\* stencil part of the combined depth/stencil format.
NativeTail(surface) ==
    IF surface = "R4_G4" THEN "_PACK8"
    ELSE IF surface \in {"R4_G4_B4_A4", "R5_G5_B5_A1", "R5_G6_B5"} THEN "_PACK16"
    ELSE IF surface \in {"R10_G10_B10_A2", "R11_G11_B10", "D24"} THEN "_PACK32"
    ELSE IF surface = "D24_S8" THEN "_S8_UINT"
    ELSE ""

NativeFormat(surface, chan) ==
    "FORMAT_" \o NativeLayout(surface) \o "_" \o NativeSuffix(surface, chan)
        \o NativeTail(surface)

\* C1: map_format returns Some exactly for a channel in the surface's
\* supported subset, and then the native format whose layout matches the
\* surface and whose numeric suffix matches the channel; otherwise None.
C1_FormatTable ==
    op = "map_format" =>
        /\ output.some <=> input.chan \in SupportedChannels(input.surface)
        /\ output.some => output.val = NativeFormat(input.surface, input.chan)
        /\ ~output.some => output = None

C1_Witness ==
    /\ op = "map_format"
    /\ input = [surface |-> "R11_G11_B10", chan |-> "Float"]
    /\ output = Some("FORMAT_B10G11R11_UFLOAT_PACK32")

\* C2: for an array kind with count N, a layer i succeeds when i < N and
\* fails with OutOfBounds(i, N) when i >= N, never with NotExpected.
C2_ArrayLayerBounds ==
    (op = "map_image_view_type" /\ input.kind.tag \in ArrayTags /\ input.layer.some) =>
        IF input.layer.val < input.kind.n
            THEN output.ok
            ELSE output = Err(OutOfBounds(input.layer.val, input.kind.n))

C2_Witness ==
    /\ op = "map_image_view_type"
    /\ input.kind.tag = "D2Array"
    /\ input.kind.n = 2
    /\ input.layer = Some(2)
    /\ output = Err(OutOfBounds(2, 2))

\* C3: for a non-array kind, every layer index (0 included) fails with
\* NotExpected carrying the kind that was passed in.
C3_NonArrayLayerRejected ==
    (op = "map_image_view_type" /\ input.kind.tag \in NonArrayTags /\ input.layer.some) =>
        output = Err(NotExpected(input.kind))

C3_Witness ==
    /\ op = "map_image_view_type"
    /\ input.kind.tag = "Cube"
    /\ input.layer = Some(0)
    /\ ~output.ok
    /\ output.err.tag = "NotExpected"
    /\ output.err.kind = input.kind

\* The view type a successful call is documented to return.
ExpectedView(kind, layer) ==
    IF ~layer.some THEN
        CASE kind.tag = "D1" -> "IMAGE_VIEW_TYPE_1D"
          [] kind.tag = "D2" -> "IMAGE_VIEW_TYPE_2D"
          [] kind.tag = "D3" -> "IMAGE_VIEW_TYPE_3D"
          [] kind.tag = "Cube" -> "IMAGE_VIEW_TYPE_CUBE"
          [] kind.tag = "D1Array" -> "IMAGE_VIEW_TYPE_1D_ARRAY"
          [] kind.tag = "D2Array" -> "IMAGE_VIEW_TYPE_2D_ARRAY"
          [] kind.tag = "CubeArray" -> "IMAGE_VIEW_TYPE_CUBE_ARRAY"
    ELSE
        CASE kind.tag = "D1Array" -> "IMAGE_VIEW_TYPE_1D"
          [] kind.tag = "D2Array" -> "IMAGE_VIEW_TYPE_2D"
          [] kind.tag = "CubeArray" -> "IMAGE_VIEW_TYPE_CUBE"
          [] OTHER -> "none"

\* C4: a successful call returns the natural view (no layer, non-array), the
\* whole-array view (no layer, array) or the element view (layer, array);
\* a call without a layer never fails.
C4_ViewTypeTable ==
    op = "map_image_view_type" =>
        /\ output.ok => output.val = ExpectedView(input.kind, input.layer)
        /\ ~input.layer.some => output.ok

C4_Witness ==
    /\ op = "map_image_view_type"
    /\ input.kind.tag = "D1Array"
    /\ input.kind.n = 3
    /\ input.layer = Some(2)
    /\ output = Ok("IMAGE_VIEW_TYPE_1D")

TransferBits == BitOr(IMAGE_USAGE_TRANSFER_SRC_BIT, IMAGE_USAGE_TRANSFER_DST_BIT)

\* C5: tiling and transfer bits depend only on the residency usage:
\* Const OPTIMAL/none, GpuOnly OPTIMAL/SRC+DST, Dynamic LINEAR/DST,
\* CpuOnly(Readable) LINEAR/DST, CpuOnly(Writable) LINEAR/SRC,
\* CpuOnly(RW) LINEAR/SRC+DST; every call returns a value.
C5_TilingAndTransfer ==
    op = "map_usage_tiling" =>
        LET u == input.gfx_usage
            tiling == output[2]
            transfer == BitAnd(output[1], TransferBits)
        IN  CASE u.tag = "Const" ->
                    tiling = "IMAGE_TILING_OPTIMAL" /\ transfer = 0
              [] u.tag = "GpuOnly" ->
                    tiling = "IMAGE_TILING_OPTIMAL" /\ transfer = TransferBits
              [] u.tag = "Dynamic" ->
                    tiling = "IMAGE_TILING_LINEAR"
                    /\ transfer = IMAGE_USAGE_TRANSFER_DST_BIT
              [] u.tag = "CpuOnly" /\ u.map = "Readable" ->
                    tiling = "IMAGE_TILING_LINEAR"
                    /\ transfer = IMAGE_USAGE_TRANSFER_DST_BIT
              [] u.tag = "CpuOnly" /\ u.map = "Writable" ->
                    tiling = "IMAGE_TILING_LINEAR"
                    /\ transfer = IMAGE_USAGE_TRANSFER_SRC_BIT
              [] u.tag = "CpuOnly" /\ u.map = "RW" ->
                    tiling = "IMAGE_TILING_LINEAR" /\ transfer = TransferBits

C5_Witness ==
    /\ op = "map_usage_tiling"
    /\ input = [gfx_usage |-> [tag |-> "CpuOnly", map |-> "Writable"], bind |-> 15]
    /\ output[2] = "IMAGE_TILING_LINEAR"
    /\ BitAnd(output[1], TransferBits) = IMAGE_USAGE_TRANSFER_SRC_BIT

\* C6: the bind-derived bits are additive and independent of the usage:
\* each native bit is present iff its Bind flag is; the flags of a union of
\* bind sets are the OR of the flags of each; Const with no bind gives 0.
C6_BindBitsAdditive ==
    op = "map_usage_tiling" =>
        LET u == input.gfx_usage
            b == input.bind
            flags == output[1]
        IN  /\ contains(flags, IMAGE_USAGE_COLOR_ATTACHMENT_BIT)
                <=> contains(b, RENDER_TARGET)
            /\ contains(flags, IMAGE_USAGE_DEPTH_STENCIL_ATTACHMENT_BIT)
                <=> contains(b, DEPTH_STENCIL)
            /\ contains(flags, IMAGE_USAGE_SAMPLED_BIT)
                <=> contains(b, SHADER_RESOURCE)
            /\ contains(flags, IMAGE_USAGE_STORAGE_BIT)
                <=> contains(b, UNORDERED_ACCESS)
            /\ \A b2 \in Binds :
                map_usage_tiling(u, BitOr(b, b2))[1]
                    = BitOr(flags, map_usage_tiling(u, b2)[1])
            /\ (u.tag = "Const" /\ b = 0) => flags = 0

C6_Witness ==
    /\ op = "map_usage_tiling"
    /\ input = [gfx_usage |-> [tag |-> "Dynamic"],
                bind |-> BitOr(RENDER_TARGET, SHADER_RESOURCE)]
    /\ output[1] = 22

DepthSurfaces == {"D16", "D24", "D24_S8", "D32"}

\* C7: depth surface as target: DEPTH|STENCIL for every channel; depth
\* surface, not target: DEPTH for Float, STENCIL for Uint, DEPTH with a
\* diagnostic for every other channel; any other surface: COLOR.
C7_AspectTable ==
    op = "map_image_aspect" =>
        IF input.surface \in DepthSurfaces THEN
            IF input.is_target THEN
                output = IMAGE_ASPECT_DEPTH_BIT + IMAGE_ASPECT_STENCIL_BIT
            ELSE IF input.channel = "Float" THEN
                output = IMAGE_ASPECT_DEPTH_BIT
            ELSE IF input.channel = "Uint" THEN
                output = IMAGE_ASPECT_STENCIL_BIT
            ELSE
                output = IMAGE_ASPECT_DEPTH_BIT /\ Len(log) = 1
        ELSE output = IMAGE_ASPECT_COLOR_BIT

C7_Witness ==
    /\ op = "map_image_aspect"
    /\ input = [surface |-> "D16", channel |-> "Srgb", is_target |-> TRUE]
    /\ output = 6

RecognizedColors == {<<0, 0, 0, 0>>, <<255, 0, 0, 0>>, <<255, 255, 255, 255>>}

\* C8: map_border_color returns Some exactly for 0x00000000, 0xFF000000 and
\* 0xFFFFFFFF, each with its own native border color, and None otherwise.
C8_BorderColorTable ==
    op = "map_border_color" =>
        /\ output.some <=> input.col \in RecognizedColors
        /\ input.col = <<0, 0, 0, 0>>
            => output = Some("BORDER_COLOR_FLOAT_TRANSPARENT_BLACK")
        /\ input.col = <<255, 0, 0, 0>>
            => output = Some("BORDER_COLOR_FLOAT_OPAQUE_BLACK")
        /\ input.col = <<255, 255, 255, 255>>
            => output = Some("BORDER_COLOR_FLOAT_OPAQUE_WHITE")
        /\ ~output.some => output = None

C8_Witness ==
    /\ op = "map_border_color"
    /\ input.col = <<0, 255, 255, 255>>
    /\ output = None

\* C9: a successful view type has the dimensionality of the kind's image
\* type: 1D views for 1-D images, the 3D view for 3-D images, 2D and cube
\* views for 2-D images; no kind has a cube image type.
C9_ViewAgreesWithImageType ==
    (op = "map_image_view_type" /\ output.ok) =>
        LET ty == map_image_type(input.kind)
        IN  /\ output.val \in {"IMAGE_VIEW_TYPE_1D", "IMAGE_VIEW_TYPE_1D_ARRAY"}
                <=> ty = "IMAGE_TYPE_1D"
            /\ output.val = "IMAGE_VIEW_TYPE_3D" <=> ty = "IMAGE_TYPE_3D"
            /\ output.val \in {"IMAGE_VIEW_TYPE_2D", "IMAGE_VIEW_TYPE_2D_ARRAY",
                               "IMAGE_VIEW_TYPE_CUBE", "IMAGE_VIEW_TYPE_CUBE_ARRAY"}
                <=> ty = "IMAGE_TYPE_2D"
            /\ ty \in {"IMAGE_TYPE_1D", "IMAGE_TYPE_2D", "IMAGE_TYPE_3D"}

C9_Witness ==
    /\ op = "map_image_view_type"
    /\ input.kind.tag = "CubeArray"
    /\ ~input.layer.some
    /\ output = Ok("IMAGE_VIEW_TYPE_CUBE_ARRAY")
    /\ map_image_type(input.kind) = "IMAGE_TYPE_2D"

\* C10: for a pair that has a native format, the non-target aspect is one
\* bit, COLOR for non-depth surfaces and DEPTH for depth surfaces, reached
\* without the diagnostic fallback and never STENCIL alone.
C10_FormatAspectConsistent ==
    (op = "map_image_aspect" /\ ~input.is_target
        /\ map_format(input.surface, input.channel).some) =>
        /\ output = (IF input.surface \in DepthSurfaces
                        THEN IMAGE_ASPECT_DEPTH_BIT ELSE IMAGE_ASPECT_COLOR_BIT)
        /\ log = <<>>

====
